---- MODULE Spec2Model ----
(***************************************************************************)
(* Model of internal/service/s3/bucket_acl.go: the resource-identifier     *)
(* codec (BucketACLCreateResourceID / BucketACLParseResourceID) and the    *)
(* create / read / update handlers of the aws_s3_bucket_acl resource that  *)
(* store and consume the identifier.                                       *)
(*                                                                         *)
(* Go strings are modelled as sequences of one-character strings, so that  *)
(* strings.Split and strings.Join are computed character by character.     *)
(***************************************************************************)
EXTENDS Naturals, Integers, Sequences, FiniteSets, TLC

\* ---------------------------------------------------------------- bounds
\* longest raw identifier handed to the parser / the importer
MaxLen == 5
\* longest name and longest owner qualifier handed to the encoder
MaxField == 2
\* longest enumeration value handed to the encoder
MaxEnum == 1
\* longest identifier handed to the importer
MaxImportLen == 3
\* longest configured bucket name
MaxBucket == 2

\* ------------------------------------------------------------- constants
BucketAclSeparator == "/"
BucketAndExpectedBucketOwnerSeparator == ","

\* the characters strings are built from: two ordinary ones, two delimiters
Char == {"a", "b", BucketAclSeparator, BucketAndExpectedBucketOwnerSeparator}

\* all strings of length n over Char
RECURSIVE StrsOfLen(_)
StrsOfLen(n) ==
    IF n = 0 THEN {<<>>}
    ELSE {Append(s, c) : s \in StrsOfLen(n - 1), c \in Char}

\* all strings of length at most n over Char
Strs(n) == UNION {StrsOfLen(k) : k \in 0..n}

\* ------------------------------------------------------ strings package
\* index of the first occurrence of sep in s, 0 when there is none
IndexOf(s, sep) ==
    IF \E i \in 1..Len(s) : s[i] = sep
    THEN CHOOSE i \in 1..Len(s) : s[i] = sep /\ \A j \in 1..(i - 1) : s[j] # sep
    ELSE 0

\* strings.Split(s, sep) for a one-character sep: n separators give n+1
\* pieces, and the empty string gives one empty piece
RECURSIVE Split(_, _)
Split(s, sep) ==
    LET i == IndexOf(s, sep)
    IN  IF i = 0 THEN <<s>>
        ELSE <<SubSeq(s, 1, i - 1)>> \o Split(SubSeq(s, i + 1, Len(s)), sep)

\* strings.Join(parts, sep) for a one-character sep
RECURSIVE Join(_, _)
Join(parts, sep) ==
    IF Len(parts) = 0 THEN <<>>
    ELSE IF Len(parts) = 1 THEN parts[1]
    ELSE parts[1] \o <<sep>> \o Join(Tail(parts), sep)

\* ------------------------------------------------------------ the codec
\* the error value of a call that did not fail
NoError == "nil"
\* the one error BucketACLParseResourceID returns
ErrUnexpectedFormat == "unexpected format for ID"

\* a bug variant of the encoder: the ACL is joined with the owner separator
CreateResourceIDOneSeparator(bucket, expectedBucketOwner, acl) ==
    IF expectedBucketOwner = <<>>
    THEN IF acl = <<>> THEN bucket
         ELSE Join(<<bucket, acl>>, BucketAclSeparator)
    ELSE IF acl = <<>>
         THEN Join(<<bucket, expectedBucketOwner>>, BucketAndExpectedBucketOwnerSeparator)
         ELSE Join(<<Join(<<bucket, expectedBucketOwner>>, BucketAndExpectedBucketOwnerSeparator), acl>>,
                   BucketAndExpectedBucketOwnerSeparator)

BucketACLCreateResourceID(bucket, expectedBucketOwner, acl) ==
    IF expectedBucketOwner = <<>>
    THEN IF acl = <<>> THEN bucket
         ELSE Join(<<bucket, acl>>, BucketAclSeparator)
    ELSE IF acl = <<>>
         THEN Join(<<bucket, expectedBucketOwner>>, BucketAndExpectedBucketOwnerSeparator)
         ELSE Join(<<Join(<<bucket, expectedBucketOwner>>, BucketAndExpectedBucketOwnerSeparator), acl>>,
                   BucketAclSeparator)

\* the four named results of the parser
Parsed(bucket, expectedBucketOwner, acl, err) ==
    [bucket |-> bucket, expectedBucketOwner |-> expectedBucketOwner, acl |-> acl, err |-> err]

\* a bug variant of the parser: the part after the owner separator is not
\* required to be non-empty
ParseResourceIDNoOwnerCheck(id) ==
    LET parts == Split(id, BucketAndExpectedBucketOwnerSeparator)
        one == Split(parts[1], BucketAclSeparator)
        two == IF Len(parts) >= 2 THEN Split(parts[2], BucketAclSeparator) ELSE <<>>
    IN  IF Len(parts) = 1 /\ parts[1] # <<>> /\ Len(one) = 1
        THEN Parsed(one[1], <<>>, <<>>, NoError)
        ELSE IF Len(parts) = 1 /\ parts[1] # <<>>
                /\ Len(one) = 2 /\ one[1] # <<>> /\ one[2] # <<>>
        THEN Parsed(one[1], <<>>, one[2], NoError)
        ELSE IF Len(parts) = 2 /\ parts[1] # <<>> /\ Len(two) = 1
        THEN Parsed(parts[1], two[1], <<>>, NoError)
        ELSE IF Len(parts) = 2 /\ parts[1] # <<>>
                /\ Len(two) = 2 /\ two[1] # <<>> /\ two[2] # <<>>
        THEN Parsed(parts[1], two[1], two[2], NoError)
        ELSE Parsed(<<>>, <<>>, <<>>, ErrUnexpectedFormat)

\* a bug variant of the parser: owner and ACL are returned swapped
ParseResourceIDSwapped(id) ==
    LET parts == Split(id, BucketAndExpectedBucketOwnerSeparator)
        one == Split(parts[1], BucketAclSeparator)
        two == IF Len(parts) >= 2 THEN Split(parts[2], BucketAclSeparator) ELSE <<>>
    IN  IF Len(parts) = 1 /\ parts[1] # <<>> /\ Len(one) = 1
        THEN Parsed(one[1], <<>>, <<>>, NoError)
        ELSE IF Len(parts) = 1 /\ parts[1] # <<>>
                /\ Len(one) = 2 /\ one[1] # <<>> /\ one[2] # <<>>
        THEN Parsed(one[1], <<>>, one[2], NoError)
        ELSE IF Len(parts) = 2 /\ parts[1] # <<>> /\ parts[2] # <<>> /\ Len(two) = 1
        THEN Parsed(parts[1], two[1], <<>>, NoError)
        ELSE IF Len(parts) = 2 /\ parts[1] # <<>> /\ parts[2] # <<>>
                /\ Len(two) = 2 /\ two[1] # <<>> /\ two[2] # <<>>
        THEN Parsed(parts[1], two[2], two[1], NoError)
        ELSE Parsed(<<>>, <<>>, <<>>, ErrUnexpectedFormat)

BucketACLParseResourceID(id) ==
    LET parts == Split(id, BucketAndExpectedBucketOwnerSeparator)
        \* partsWithACL of the one-part branch and of the two-part branch
        one == Split(parts[1], BucketAclSeparator)
        two == IF Len(parts) >= 2 THEN Split(parts[2], BucketAclSeparator) ELSE <<>>
    IN  IF Len(parts) = 1 /\ parts[1] # <<>> /\ Len(one) = 1
        THEN Parsed(one[1], <<>>, <<>>, NoError)
        ELSE IF Len(parts) = 1 /\ parts[1] # <<>>
                /\ Len(one) = 2 /\ one[1] # <<>> /\ one[2] # <<>>
        THEN Parsed(one[1], <<>>, one[2], NoError)
        ELSE IF Len(parts) = 2 /\ parts[1] # <<>> /\ parts[2] # <<>> /\ Len(two) = 1
        THEN Parsed(parts[1], two[1], <<>>, NoError)
        ELSE IF Len(parts) = 2 /\ parts[1] # <<>> /\ parts[2] # <<>>
                /\ Len(two) = 2 /\ two[1] # <<>> /\ two[2] # <<>>
        THEN Parsed(parts[1], two[1], two[2], NoError)
        ELSE Parsed(<<>>, <<>>, <<>>, ErrUnexpectedFormat)

\* ------------------------------------------------- the codec on its own
\* c is the codec's work item: the input triple or raw identifier, the
\* encoded identifier and the parser's result
VARIABLE c

NoResult == Parsed(<<>>, <<>>, <<>>, "none")

CodecItem(phase, bucket, expectedBucketOwner, acl, id, res) ==
    [phase |-> phase, bucket |-> bucket, expectedBucketOwner |-> expectedBucketOwner,
     acl |-> acl, id |-> id, res |-> res]

CodecIdle == CodecItem("idle", <<>>, <<>>, <<>>, <<>>, NoResult)

\* either a triple for the encoder or a raw identifier for the parser
CodecInputs ==
    {CodecItem("triple", n, o, e, <<>>, NoResult) :
        n \in Strs(MaxField), o \in Strs(MaxField), e \in Strs(MaxEnum)}
    \cup {CodecItem("raw", <<>>, <<>>, <<>>, id, NoResult) : id \in Strs(MaxLen)}

\* BucketACLCreateResourceID applied to the triple
CodecEncode ==
    /\ c.phase = "triple"
    /\ c' = [c EXCEPT !.phase = "encoded",
                      !.id = BucketACLCreateResourceID(c.bucket, c.expectedBucketOwner, c.acl)]

\* BucketACLParseResourceID applied to a raw or to an encoded identifier
CodecParse ==
    /\ c.phase \in {"raw", "encoded"}
    /\ c' = [c EXCEPT !.phase = IF c.phase = "raw" THEN "parsed" ELSE "roundtrip",
                      !.res = BucketACLParseResourceID(c.id)]

\* ------------------------------------------------ the resource handlers
\* most PutBucketAcl retries RetryOnAWSCode makes before its final attempt
MaxRetries == 1

\* d:     the schema.ResourceData of the resource: its Id and the attributes
\*        the handlers write with d.Set
\* calls: what the last handler did, in order: the remote calls it issued
\*        with their inputs and outcomes, and its d.SetId calls
\* last:  the last handler run, the configuration it was given, its result
\* h:     where the identifier came from, the bucket and owner it was
\*        created for and the ACL last sent with a successful PutBucketAcl
VARIABLES d, calls, last, h

vars == <<c, d, calls, last, h>>

\* a nil *string and aws.String(v)
Nil == <<>>
String(v) == <<v>>

ResourceData(id, acl, bucket, owner, policy) ==
    [id |-> id, acl |-> acl, bucket |-> bucket,
     expected_bucket_owner |-> owner, access_control_policy |-> policy]

\* a resource that is not in the state
NoResource == ResourceData(<<>>, <<>>, <<>>, <<>>, "unset")

\* the state the framework keeps of d once a handler has returned: a
\* resource whose Id is empty is removed from the state
Persisted(dd) == IF dd.id = <<>> THEN NoResource ELSE dd

\* values the schema lets a configuration give: any bucket of at least one
\* character, an account id or nothing, a canned ACL or nothing
ConfigBuckets == Strs(MaxBucket) \ {<<>>}
ConfigOwners == {<<>>, <<"b">>}
ConfigAcls == {<<>>, <<"a">>, <<"b">>}

\* outcomes of the remote calls
PutOutcomes == {"ok", "NoSuchBucket", "OtherError"}
GetOutcomes == {"ok", "NoSuchBucket", "OtherError", "NilOutput"}

\* GetBucketAcl has an outcome of its own only when the handler gets as far
\* as the read, which is after a PutBucketAcl that succeeded
GetOutcomesAfter(putOut) == IF putOut = "ok" THEN GetOutcomes ELSE {"ok"}

\* one entry of calls
Ev(call, Bucket, ExpectedBucketOwner, ACL, policy, id, out) ==
    [call |-> call, Bucket |-> Bucket, ExpectedBucketOwner |-> ExpectedBucketOwner,
     ACL |-> ACL, AccessControlPolicy |-> policy, id |-> id, out |-> out]

SetIdEv(id) == Ev("SetId", Nil, Nil, Nil, FALSE, id, "ok")

\* the result of a handler: the ResourceData, what it did, its diagnostics
Ret(dd, cs, err) == [d |-> dd, calls |-> cs, err |-> err]

ErrCreating == "error creating S3 bucket ACL"
ErrGetting == "error getting S3 bucket ACL"
ErrEmptyOutput == "error getting S3 bucket ACL: empty output"
ErrUpdating == "error updating S3 bucket ACL"

\* a bug variant: the handlers go on after a parse error
ParseFailedIgnored(p) == FALSE

\* err != nil after BucketACLParseResourceID(d.Id())
ParseFailed(p) == p.err # NoError

\* a bug variant: a missing bucket removes a new resource as well
NotFoundAlsoWhenNew(isNew, out) == out = "NoSuchBucket"

\* !d.IsNewResource() && tfawserr.ErrCodeEquals(err, s3.ErrCodeNoSuchBucket)
NotFound(isNew, out) == ~isNew /\ out = "NoSuchBucket"

\* a bug variant: read stores owner and ACL in each other's attribute
ReadSetSwapped(dd, p) ==
    ResourceData(dd.id, p.expectedBucketOwner, p.bucket, p.acl, "remote")

\* the four d.Set calls of read
ReadSet(dd, p) ==
    ResourceData(dd.id, p.acl, p.bucket, p.expectedBucketOwner, "remote")

resourceBucketAclRead(dd, isNew, getOut) ==
    LET p == BucketACLParseResourceID(dd.id)
        get == Ev("GetBucketAcl", String(p.bucket),
                  IF p.expectedBucketOwner # <<>> THEN String(p.expectedBucketOwner) ELSE Nil,
                  Nil, FALSE, <<>>, getOut)
    IN  IF ParseFailed(p) THEN Ret(dd, <<>>, p.err)
        ELSE IF NotFound(isNew, getOut)
        THEN Ret([dd EXCEPT !.id = <<>>], <<get, SetIdEv(<<>>)>>, NoError)
        ELSE IF getOut \in {"NoSuchBucket", "OtherError"} THEN Ret(dd, <<get>>, ErrGetting)
        ELSE IF getOut = "NilOutput" THEN Ret(dd, <<get>>, ErrEmptyOutput)
        ELSE Ret(ReadSet(dd, p), <<get>>, NoError)

\* verify.RetryOnAWSCode(s3.ErrCodeNoSuchBucket, f): the outcomes of the
\* attempts, f being retried for as long as it fails with NoSuchBucket
RetryOnAWSCode(retries, final) ==
    [i \in 1..(retries + 1) |-> IF i <= retries THEN "NoSuchBucket" ELSE final]

\* a bug variant: the identifier is set whether or not the call failed
CreateFailedIgnored(outs) == FALSE

\* err != nil after the retried PutBucketAcl
CreateFailed(outs) == outs[Len(outs)] # "ok"

resourceBucketAclCreate(dd, bucket, expectedBucketOwner, acl, hasPolicy, retries, putOut, getOut) ==
    LET outs == RetryOnAWSCode(retries, putOut)
        puts == [i \in 1..Len(outs) |->
                   Ev("PutBucketAcl", String(bucket),
                      IF expectedBucketOwner # <<>> THEN String(expectedBucketOwner) ELSE Nil,
                      IF acl # <<>> THEN String(acl) ELSE Nil,
                      hasPolicy, <<>>, outs[i])]
        id == BucketACLCreateResourceID(bucket, expectedBucketOwner, acl)
        r == resourceBucketAclRead([dd EXCEPT !.id = id], TRUE, getOut)
    IN  IF CreateFailed(outs) THEN Ret(dd, puts, ErrCreating)
        ELSE Ret(r.d, puts \o <<SetIdEv(id)>> \o r.calls, r.err)

\* a bug variant: the new identifier keeps the ACL of the old one
UpdateResourceIDOldAcl(p, acl) ==
    BucketACLCreateResourceID(p.bucket, p.expectedBucketOwner, p.acl)

\* a bug variant: the new identifier is built without the decoded owner
UpdateResourceIDNoOwner(p, acl) ==
    BucketACLCreateResourceID(p.bucket, <<>>, acl)

\* the identifier update sets once the ACL has changed
UpdateResourceID(p, acl) ==
    BucketACLCreateResourceID(p.bucket, p.expectedBucketOwner, acl)

\* the second d.HasChange("acl"), which guards d.SetId
UpdateSetsId(aclChanged) == aclChanged

resourceBucketAclUpdate(dd, newAcl, aclChanged, policyChanged, putOut, getOut) ==
    LET p == BucketACLParseResourceID(dd.id)
        acl == IF aclChanged THEN newAcl ELSE p.acl
        put == Ev("PutBucketAcl", String(p.bucket),
                  IF p.expectedBucketOwner # <<>> THEN String(p.expectedBucketOwner) ELSE Nil,
                  IF aclChanged THEN String(acl) ELSE Nil,
                  policyChanged, <<>>, putOut)
        id == UpdateResourceID(p, acl)
        d1 == IF UpdateSetsId(aclChanged) THEN [dd EXCEPT !.id = id] ELSE dd
        sets == IF UpdateSetsId(aclChanged) THEN <<SetIdEv(id)>> ELSE <<>>
        r == resourceBucketAclRead(d1, FALSE, getOut)
    IN  IF ParseFailed(p) THEN Ret(dd, <<>>, p.err)
        ELSE IF putOut # "ok" THEN Ret(dd, <<put>>, ErrUpdating)
        ELSE Ret(r.d, <<put>> \o sets \o r.calls, r.err)

\* ------------------------------------------------------- the operations
Last(op, err, bucket, owner, acl, aclChanged, policyChanged) ==
    [op |-> op, err |-> err, bucket |-> bucket, expected_bucket_owner |-> owner,
     acl |-> acl, aclChanged |-> aclChanged, policyChanged |-> policyChanged]

History(origin, bucket, owner, acl) ==
    [origin |-> origin, bucket |-> bucket, expected_bucket_owner |-> owner, acl |-> acl]

NoHistory == History("none", <<>>, <<>>, <<>>)

\* some PutBucketAcl of cs succeeded
PutSucceeded(cs) ==
    \E i \in 1..Len(cs) : cs[i].call = "PutBucketAcl" /\ cs[i].out = "ok"

\* CreateContext, on a resource that has no Id yet and that no handler has
\* run on; acl and access_control_policy conflict with each other
Create ==
    /\ d.id = <<>>
    /\ last.op = "none"
    /\ \E bucket \in ConfigBuckets, owner \in ConfigOwners, acl \in ConfigAcls,
          hasPolicy \in BOOLEAN, retries \in 0..MaxRetries, putOut \in PutOutcomes :
       \E getOut \in GetOutcomesAfter(putOut) :
          /\ ~(acl # <<>> /\ hasPolicy)
          /\ \E r \in {resourceBucketAclCreate(d, bucket, owner, acl, hasPolicy,
                                                 retries, putOut, getOut)} :
                 /\ d' = Persisted(r.d)
                 /\ calls' = r.calls
                 /\ last' = Last("create", r.err, bucket, owner, acl, FALSE, hasPolicy)
                 /\ h' = IF r.d.id = <<>> THEN NoHistory
                         ELSE History("create", bucket, owner, acl)
    /\ UNCHANGED c

\* ReadContext, on a resource of the state
Read ==
    /\ d.id # <<>>
    /\ \E getOut \in GetOutcomes :
          \E r \in {resourceBucketAclRead(d, FALSE, getOut)} :
              /\ d' = Persisted(r.d)
              /\ calls' = r.calls
              /\ last' = Last("read", r.err, <<>>, <<>>, <<>>, FALSE, FALSE)
              /\ h' = IF r.d.id = <<>> THEN NoHistory ELSE h
    /\ UNCHANGED c

\* UpdateContext, on a resource of the state whose acl or
\* access_control_policy differs from the configuration; bucket and
\* expected_bucket_owner are ForceNew and never reach update
Update ==
    /\ d.id # <<>>
    /\ \E newAcl \in ConfigAcls, policyChanged \in BOOLEAN, putOut \in PutOutcomes :
       \E getOut \in GetOutcomesAfter(putOut) :
          \E aclChanged \in {newAcl # d.acl} :
          \E r \in {resourceBucketAclUpdate(d, newAcl, aclChanged, policyChanged,
                                             putOut, getOut)} :
              /\ aclChanged \/ policyChanged
              /\ d' = Persisted(r.d)
              /\ calls' = r.calls
              /\ last' = Last("update", r.err, <<>>, <<>>, newAcl, aclChanged, policyChanged)
              /\ h' = IF r.d.id = <<>> THEN NoHistory
                      ELSE IF aclChanged /\ PutSucceeded(r.calls)
                      THEN [h EXCEPT !.acl = newAcl]
                      ELSE h
    /\ UNCHANGED c

\* Importer with ImportStatePassthroughContext, on a resource that is not in
\* the state: the identifier the user gives becomes the Id as it is
Import ==
    /\ d.id = <<>>
    /\ last.op = "none"
    /\ \E id \in Strs(MaxImportLen) \ {<<>>} :
          /\ d' = [NoResource EXCEPT !.id = id]
          /\ h' = History("import", <<>>, <<>>, <<>>)
    /\ calls' = <<>>
    /\ last' = Last("import", NoError, <<>>, <<>>, <<>>, FALSE, FALSE)
    /\ UNCHANGED c

\* DeleteContext is schema.NoopContext: the resource leaves the state
Delete ==
    /\ d.id # <<>>
    /\ d' = NoResource
    /\ calls' = <<>>
    /\ last' = Last("delete", NoError, <<>>, <<>>, <<>>, FALSE, FALSE)
    /\ h' = NoHistory
    /\ UNCHANGED c

Init ==
    /\ c = CodecIdle
    /\ d = NoResource
    /\ calls = <<>>
    /\ last = Last("none", NoError, <<>>, <<>>, <<>>, FALSE, FALSE)
    /\ h = NoHistory

Next == Create \/ Read \/ Update \/ Import \/ Delete

Spec == Init /\ [][Next]_vars

\* the codec applied to every input of the bounded sets
InitCodec ==
    /\ c \in CodecInputs
    /\ d = NoResource
    /\ calls = <<>>
    /\ last = Last("none", NoError, <<>>, <<>>, <<>>, FALSE, FALSE)
    /\ h = NoHistory

NextCodec ==
    \/ CodecEncode /\ UNCHANGED <<d, calls, last, h>>
    \/ CodecParse /\ UNCHANGED <<d, calls, last, h>>

SpecCodec == InitCodec /\ [][NextCodec]_vars

\* ------------------------------------------------------------ properties
\* s contains neither separator
IsClean(s) ==
    \A i \in 1..Len(s) :
        s[i] \notin {BucketAclSeparator, BucketAndExpectedBucketOwnerSeparator}

\* s is a non-empty field free of separators
IsField(s) == s # <<>> /\ IsClean(s)

\* number of occurrences of ch in s
Count(s, ch) == Cardinality({i \in 1..Len(s) : s[i] = ch})

\* C1: round trip. Parsing the identifier created from a non-empty,
\* separator-free name and from an owner and an ACL that are each empty or
\* separator-free returns exactly that triple and no error.
C1_RoundTrip ==
    (c.phase = "roundtrip" /\ IsField(c.bucket)
        /\ IsClean(c.expectedBucketOwner) /\ IsClean(c.acl))
    => c.res = Parsed(c.bucket, c.expectedBucketOwner, c.acl, NoError)

C1_Witness ==
    /\ c.phase = "roundtrip"
    /\ IsField(c.bucket) /\ IsField(c.expectedBucketOwner) /\ IsField(c.acl)
    /\ c.expectedBucketOwner # c.acl
    /\ c.res.err = NoError

\* C2: the encoder is total and follows the four-row table for every
\* triple of strings, whatever they contain: name; name/enum; name,owner;
\* name,owner/enum.
C2_EncodeTable ==
    c.phase \in {"encoded", "roundtrip"}
    => c.id = IF c.expectedBucketOwner = <<>> /\ c.acl = <<>> THEN c.bucket
              ELSE IF c.expectedBucketOwner = <<>> THEN c.bucket \o <<"/">> \o c.acl
              ELSE IF c.acl = <<>> THEN c.bucket \o <<",">> \o c.expectedBucketOwner
              ELSE c.bucket \o <<",">> \o c.expectedBucketOwner \o <<"/">> \o c.acl

C2_Witness ==
    /\ c.phase = "encoded"
    /\ c.bucket = <<>>
    /\ ~IsClean(c.expectedBucketOwner)
    /\ c.acl # <<>>
    /\ Len(c.id) = Len(c.expectedBucketOwner) + Len(c.acl) + 2

\* id is NAME, NAME/ENUM, NAME,OWNER or NAME,OWNER/ENUM with NAME, OWNER
\* and ENUM non-empty and free of separators
IsFourShapes(id) ==
    \/ IsField(id)
    \/ \E i \in 1..Len(id) :
          /\ id[i] \in {"/", ","}
          /\ IsField(SubSeq(id, 1, i - 1))
          /\ IsField(SubSeq(id, i + 1, Len(id)))
    \/ \E i \in 1..Len(id), j \in 1..Len(id) :
          /\ i < j /\ id[i] = "," /\ id[j] = "/"
          /\ IsField(SubSeq(id, 1, i - 1))
          /\ IsField(SubSeq(id, i + 1, j - 1))
          /\ IsField(SubSeq(id, j + 1, Len(id)))

\* C3: the parser accepts exactly the four shapes: it succeeds if and only
\* if the identifier is NAME, NAME/ENUM, NAME,OWNER or NAME,OWNER/ENUM with
\* non-empty separator-free fields, and then no returned field contains a
\* separator.
C3_FourShapesOnly ==
    c.phase = "parsed"
    => /\ (c.res.err = NoError) <=> IsFourShapes(c.id)
       /\ c.res.err = NoError
          => IsField(c.res.bucket) /\ IsClean(c.res.expectedBucketOwner) /\ IsClean(c.res.acl)

\* the segment the parser splits on the ACL separator: the whole identifier
\* when it has no owner separator, what follows the owner separator otherwise
AclSegment(id) ==
    IF Count(id, ",") = 0 THEN id
    ELSE SubSeq(id, IndexOf(id, ",") + 1, Len(id))

\* the identifiers C4 lists: empty, two or more owner separators, an empty
\* side of the single owner separator, an empty side of the ACL separator of
\* the split segment, or more than two pieces in it
IsC4Malformed(id) ==
    \/ id = <<>>
    \/ Count(id, ",") >= 2
    \/ Count(id, ",") = 1 /\ (id[1] = "," \/ id[Len(id)] = ",")
    \/ Count(id, ",") <= 1
       /\ LET seg == AclSegment(id)
          IN  \/ Count(seg, "/") >= 2
              \/ Count(seg, "/") = 1 /\ (seg[1] = "/" \/ seg[Len(seg)] = "/")

\* C4: the parser fails with its one error for every identifier with an
\* empty required segment or a split count outside the accepted ones.
C4_MalformedRejected ==
    (c.phase = "parsed" /\ IsC4Malformed(c.id))
    => c.res = Parsed(<<>>, <<>>, <<>>, ErrUnexpectedFormat)

C4_Witness ==
    /\ c.phase = "parsed"
    /\ Count(c.id, ",") = 1 /\ c.id[1] = "a"
    /\ Count(AclSegment(c.id), "/") = 2
    /\ c.res.err = ErrUnexpectedFormat

\* positions of the calls of one kind in cs
CallsOf(cs, call) == {i \in 1..Len(cs) : cs[i].call = call}

\* the input fields a remote call carries for a decoded identifier
CarriesDecoded(ev, p) ==
    /\ ev.Bucket = <<p.bucket>>
    /\ ev.ExpectedBucketOwner =
          IF p.expectedBucketOwner = <<>> THEN <<>> ELSE <<p.expectedBucketOwner>>

\* C5: read and update decode the stored identifier before any remote
\* call. When decoding fails the handler returns the decode error, issues no
\* remote call and leaves the identifier and the attributes as they were;
\* when it succeeds, the first remote call carries the decoded bucket and
\* owner.
C5_DecodeBeforeRemote ==
    [][last'.op \in {"read", "update"}
       => LET p == BucketACLParseResourceID(d.id)
          IN  IF p.err # NoError
              THEN last'.err = p.err /\ calls' = <<>> /\ d' = d
              ELSE /\ calls' # <<>>
                   /\ calls'[1].call = (IF last'.op = "read" THEN "GetBucketAcl"
                                        ELSE "PutBucketAcl")
                   /\ CarriesDecoded(calls'[1], p)]_vars

C5_Witness ==
    /\ last.op = "update"
    /\ last.err = ErrUnexpectedFormat
    /\ calls = <<>>
    /\ d.id # <<>> /\ last.aclChanged
    /\ BucketACLParseResourceID(d.id).err = ErrUnexpectedFormat

\* C6: create sets the identifier exactly once, to the encoding of the
\* configured triple, and only after the retried PutBucketAcl has
\* succeeded; when that call fails create returns an error and sets no
\* identifier.
C6_CreateSetsIdAfterPut ==
    [][last'.op = "create"
       => LET sets == CallsOf(calls', "SetId")
              id == BucketACLCreateResourceID(last'.bucket, last'.expected_bucket_owner,
                                              last'.acl)
          IN  IF PutSucceeded(calls')
              THEN /\ Cardinality(sets) = 1
                   /\ \A i \in sets :
                         /\ calls'[i].id = id
                         /\ i > 1
                         /\ calls'[i - 1].call = "PutBucketAcl" /\ calls'[i - 1].out = "ok"
                         /\ \A j \in CallsOf(calls', "PutBucketAcl") : j < i
                   /\ d'.id = id
              ELSE last'.err = ErrCreating /\ sets = {} /\ d'.id = <<>>]_vars

C6_Witness ==
    /\ last.op = "create"
    /\ Len(calls) >= 3
    /\ calls[1].call = "PutBucketAcl" /\ calls[1].out = "NoSuchBucket"
    /\ calls[2].call = "PutBucketAcl" /\ calls[2].out = "ok"
    /\ calls[3].call = "SetId" /\ calls[3].id = d.id
    /\ d.id # <<>>

\* C7 as stated: once created, the identifier is only decoded; read and
\* update never replace it with a different non-empty identifier.
C7_NeverReplaced ==
    [][(h.origin = "create" /\ last'.op \in {"read", "update"})
       => d'.id \in {d.id, <<>>}]_vars

\* C7 amended: an identifier appears only with create (or import) and
\* disappears only when the resource leaves the state (delete, or a read
\* that finds no bucket); read never replaces it; update replaces it only
\* with an identifier that decodes to the same bucket and owner and to the
\* newly configured ACL.
C7_ReplacedOnlyInAcl ==
    [][/\ (d.id = <<>> /\ d'.id # <<>>) => last'.op \in {"create", "import"}
       /\ (d.id # <<>> /\ d'.id = <<>>)
          => \/ last'.op = "delete"
             \/ /\ last'.op \in {"read", "update"}
                /\ \E i \in CallsOf(calls', "GetBucketAcl") : calls'[i].out = "NoSuchBucket"
       /\ last'.op = "read" => d'.id \in {d.id, <<>>}
       /\ last'.op = "update"
          => \/ d'.id \in {d.id, <<>>}
             \/ LET p == BucketACLParseResourceID(d.id)
                    q == BucketACLParseResourceID(d'.id)
                IN  /\ p.err = NoError
                    /\ q = Parsed(p.bucket, p.expectedBucketOwner, last'.acl, NoError)]_vars

C7_Witness ==
    /\ h.origin = "create"
    /\ last.op = "update" /\ last.aclChanged
    /\ \E i \in CallsOf(calls, "SetId") : calls[i].id = d.id /\ d.id # <<>>
    /\ BucketACLParseResourceID(d.id).expectedBucketOwner # <<>>
    /\ BucketACLParseResourceID(d.id).acl = last.acl

\* C8 as stated: update sets the identifier to the encoding of the decoded
\* bucket and owner and the new ACL when the ACL has changed and
\* PutBucketAcl has succeeded, and leaves it unchanged otherwise.
C8_UpdateId ==
    [][last'.op = "update"
       => LET p == BucketACLParseResourceID(d.id)
          IN  IF last'.aclChanged /\ PutSucceeded(calls')
              THEN d'.id = BucketACLCreateResourceID(p.bucket, p.expectedBucketOwner, last'.acl)
              ELSE d'.id = d.id]_vars

\* C8 amended: as stated, except that the read that ends a successful
\* update clears the identifier when GetBucketAcl reports NoSuchBucket.
C8_UpdateIdOrCleared ==
    [][last'.op = "update"
       => LET p == BucketACLParseResourceID(d.id)
          IN  IF \E i \in CallsOf(calls', "GetBucketAcl") : calls'[i].out = "NoSuchBucket"
              THEN d'.id = <<>> /\ PutSucceeded(calls')
              ELSE IF last'.aclChanged /\ PutSucceeded(calls')
              THEN d'.id = BucketACLCreateResourceID(p.bucket, p.expectedBucketOwner, last'.acl)
              ELSE d'.id = d.id]_vars

C8_Witness ==
    /\ last.op = "update" /\ last.aclChanged /\ last.acl # <<>>
    /\ PutSucceeded(calls)
    /\ last.err = NoError
    /\ d.id # <<>> /\ d.acl = last.acl

\* the identifier read was called with: the one the handler has just set,
\* or else the stored one
IdAtRead(cs, stored) ==
    IF CallsOf(cs, "SetId") # {} /\ cs[Len(cs)].call # "SetId"
    THEN cs[CHOOSE i \in CallsOf(cs, "SetId") : TRUE].id
    ELSE stored

\* C9: on NoSuchBucket from GetBucketAcl, read clears the identifier and
\* returns no error when the resource is not new, and returns an error and
\* keeps the identifier create has set when it is new; any other error and
\* an empty output return an error and leave the identifier unchanged.
C9_ReadNotFound ==
    [][(last'.op \in {"create", "read", "update"} /\ CallsOf(calls', "GetBucketAcl") # {})
       => LET get == calls'[CHOOSE i \in CallsOf(calls', "GetBucketAcl") : TRUE]
              kept == IdAtRead(calls', d.id)
          IN  /\ (get.out = "NoSuchBucket" /\ last'.op # "create")
                 => d'.id = <<>> /\ last'.err = NoError
              /\ (get.out = "NoSuchBucket" /\ last'.op = "create")
                 => d'.id = kept /\ kept # <<>> /\ last'.err = ErrGetting
              /\ get.out = "OtherError" => d'.id = kept /\ last'.err = ErrGetting
              /\ get.out = "NilOutput" => d'.id = kept /\ last'.err = ErrEmptyOutput]_vars

C9_Witness ==
    /\ last.op = "create"
    /\ last.err = ErrGetting
    /\ calls[Len(calls)].call = "GetBucketAcl" /\ calls[Len(calls)].out = "NoSuchBucket"
    /\ d.id # <<>>

\* C10: for a resource created from a non-empty bucket, and bucket, owner
\* and ACL free of separators, a non-empty identifier after a successful
\* create or update decodes to the configured bucket and owner and to the
\* ACL last applied, and after a successful read (the one ending create and
\* update included) the acl, bucket and expected_bucket_owner attributes are
\* the three fields decoded from the identifier.
C10_IdMatchesConfig ==
    (h.origin = "create" /\ IsField(h.bucket) /\ last.err = NoError /\ d.id # <<>>)
    => LET p == BucketACLParseResourceID(d.id)
       IN  /\ last.op \in {"create", "update"}
              => p = Parsed(h.bucket, h.expected_bucket_owner, h.acl, NoError)
           /\ last.op \in {"create", "read", "update"}
              => /\ p.err = NoError
                 /\ d.acl = p.acl
                 /\ d.bucket = p.bucket
                 /\ d.expected_bucket_owner = p.expectedBucketOwner

C10_Witness ==
    /\ h.origin = "create" /\ IsField(h.bucket)
    /\ last.op = "update" /\ last.aclChanged /\ last.err = NoError
    /\ h.acl # <<>> /\ h.expected_bucket_owner # <<>>
    /\ d.acl = h.acl /\ d.bucket = h.bucket
    /\ d.expected_bucket_owner = h.expected_bucket_owner
====
